---- MODULE Spec2Model ----
(***************************************************************************)
(* Retrieval core of the chatbot repository: the embedding client          *)
(* (GeminiService.getEmbedding), the in-memory vector index (VectorStore)  *)
(* and the application handlers that feed and query it.                    *)
(*                                                                         *)
(* Texts are abstract content codes (naturals).  Embedding components are  *)
(* small integers; cosine scores are kept exact (see cosineSimilarity).    *)
(* crypto.randomUUID() is modelled by an injective name: the pair          *)
(* <<number of the addChunks call, position of the chunk in its input>>.   *)
(***************************************************************************)
EXTENDS Integers, Sequences, FiniteSets, TLC

VARIABLES
    call,       \* one getEmbedding call observed in isolation (SpecEmbed)
    chunks,     \* VectorStore.chunks
    adds,       \* the addChunks invocations, one record per caller
    nCalls,     \* addChunks invocations started so far (names the UUIDs)
    last,       \* the last completed synchronous store operation
    srch,       \* the search call
    documents,  \* App: the documents list (ids of the DocumentSource records)
    up,         \* App: the ingestion handler in flight
    deleted,    \* ids handed to DocumentManager.deleteDocument so far
    ck,         \* one chunkText call observed in isolation (SpecChunk)
    chat,       \* ChatInterface: the messages and the handleSend in flight
    removed,    \* documents removeDocument or clear took out of the index so far
    invoked     \* provider invocations of the call so far: in all, and the most for one chunk

storeVars == <<chunks, adds, nCalls, last>>
appVars == <<documents, up, deleted>>
vars == <<call, chunks, adds, nCalls, last, srch, documents, up, deleted, ck, chat, removed, invoked>>

(***************************************************************************)
(* Bounds of the model.                                                    *)
(***************************************************************************)
MaxChunks == 6      \* longest addChunks input, and the entries index and input may total
MaxCalls == 2       \* addChunks invocations in one behaviour
MaxSearchIndex == 3 \* entries of the index that is searched
MaxK == 3           \* largest k asked of search
MaxFiles == 2       \* files picked in one upload
MaxTextLen == 5     \* longest text handed to chunkText
MaxChunkSize == 3   \* largest chunkSize and overlap handed to chunkText
MaxPushes == 7      \* chunks a chunkText call is followed for
MaxQueries == 1     \* messages sent in the chat
MaxItems == 2       \* items of one generation stream
MaxOverlapInput == 2 \* longest input of an addChunks call that overlaps another
MaxIgnored == 2     \* send requests that return at the guard of handleSend
MaxSends == 2       \* queries sent where send requests of every kind are made

(***************************************************************************)
(* Program constants.                                                      *)
(***************************************************************************)
BATCH_SIZE == 5
DefaultRetries == 2
RetryDelayMs == 1000
OracleLen == DefaultRetries + 2     \* provider responses drawn for one call
ChunkSize == 1000
ChunkOverlap == 100
MaxFileBytes == 10 * 1024 * 1024
DefaultK == 3
SearchK == 5

Min(a, b) == IF a < b THEN a ELSE b

(***************************************************************************)
(* The embedding provider boundary: ai.models.embedContent.  One response  *)
(* is either a result object or a thrown error.  An error message is a     *)
(* sequence of words; an error without a message has the empty sequence.   *)
(***************************************************************************)
Docs == 0..MaxCalls     \* document ids; 0 names a document that was never ingested
Texts == {1, 2}
Vecs == {<<1, 0>>, <<0, 1>>, <<1, 1>>}

Msg429 == <<"429", "Too", "Many", "Requests">>
MsgRate == <<"quota", "rate", "limit", "exceeded">>
MsgServer == <<"500", "Internal">>
MsgLimitRate == <<"limit", "rate">>
NoMessage == <<>>
MsgNoEmbedding == <<"No", "embedding", "values", "returned", "from", "API">>

ErrorMessages == {Msg429, MsgRate, MsgServer, MsgLimitRate, NoMessage}

RespValues(v) == [kind |-> "values", values |-> v, message |-> NoMessage]
RespAbsentValues == [kind |-> "absentValues", values |-> <<>>, message |-> NoMessage]
RespNoEmbeddings == [kind |-> "noEmbeddings", values |-> <<>>, message |-> NoMessage]
RespError(m) == [kind |-> "error", values |-> <<>>, message |-> m]

Responses ==
    {RespValues(v) : v \in Vecs \cup {<<>>}} \cup {RespAbsentValues, RespNoEmbeddings}
        \cup {RespError(m) : m \in ErrorMessages}

\* String.prototype.includes on word sequences: needle occurs contiguously.
Includes(msg, needle) ==
    \E i \in 1..(Len(msg) - Len(needle) + 1) :
        SubSeq(msg, i, i + Len(needle) - 1) = needle

\* error.message?.includes('429') || error.message?.includes('rate limit')
IsRateLimitMutant(msg) == TRUE
IsRateLimit(msg) == Includes(msg, <<"429">>) \/ Includes(msg, <<"rate", "limit">>)

EvInvoke(text) == [op |-> "embedContent", text |-> text, ms |-> 0]
EvWait == [op |-> "wait", text |-> 0, ms |-> RetryDelayMs]
EvLog == [op |-> "console.error", text |-> 0, ms |-> 0]

(***************************************************************************)
(* GeminiService.getEmbedding(text, retries), as a function of the         *)
(* responses the provider gives to its successive invocations.  The result *)
(* carries the outcome and the trace of what the call did, in order.       *)
(***************************************************************************)
RetryAllowedMutant(retries, msg) == retries >= 0 /\ IsRateLimit(msg)
RetryAllowed(retries, msg) == retries > 0 /\ IsRateLimit(msg)

RECURSIVE getEmbedding(_, _, _)
getEmbedding(text, retries, responses) ==
    LET r == Head(responses)
        throws == r.kind \in {"error", "noEmbeddings"}
        thrown == IF r.kind = "noEmbeddings" THEN MsgNoEmbedding ELSE r.message
    IN  IF ~throws
        THEN [outcome |-> "returned", present |-> (r.kind = "values"),
              values |-> r.values, message |-> NoMessage,
              trace |-> <<EvInvoke(text)>>]
        ELSE IF RetryAllowed(retries, thrown)
        THEN LET rest == getEmbedding(text, retries - 1, Tail(responses))
             IN  [rest EXCEPT !.trace = <<EvInvoke(text), EvWait>> \o @]
        ELSE [outcome |-> "thrown", present |-> FALSE, values |-> <<>>,
              message |-> thrown, trace |-> <<EvInvoke(text), EvLog>>]

Oracles(R) == [1..OracleLen -> R]

\* the places of a trace where the call did op
Positions(tr, op) == {i \in DOMAIN tr : tr[i].op = op}

(***************************************************************************)
(* VectorStore.  An index entry is a DocumentChunk; `present` is FALSE     *)
(* when its embedding property is undefined.                               *)
(***************************************************************************)
Entry(id, documentId, text, present, embedding) ==
    [id |-> id, documentId |-> documentId, text |-> text,
     present |-> present, embedding |-> embedding]

NoEntry == Entry(<<0, 0>>, 0, 0, FALSE, <<>>)

Pending == [state |-> "pending", chunk |-> NoEntry]
Null == [state |-> "null", chunk |-> NoEntry]
Settled(e) == [state |-> "chunk", chunk |-> e]

\* chunks.slice(i, i + BATCH_SIZE), i 0-based
SliceMutant(s, from, to) == SubSeq(s, from + 1, Len(s))
Slice(s, from, to) == SubSeq(s, from + 1, Min(to, Len(s)))

IdleAdd ==
    [pc |-> "idle", input |-> <<>>, i |-> 0, results |-> <<>>,
     newChunksWithIds |-> <<>>, progress |-> <<>>, callNo |-> 0,
     before |-> <<>>, failed |-> {}]

\* the synchronous store operation that completed last, and the index before it
Op(op, documentId, before) == [op |-> op, documentId |-> documentId, before |-> before]
NoOp == Op("none", 0, <<>>)

InFlight(c) == adds[c].pc \in {"batch", "pause"}

\* The inputs handed to addChunks (processFile, handleUrlFetch): the n chunks
\* of one document d, chunk j with text code j.  Every ingestion makes its
\* docId with crypto.randomUUID(): the document of the k-th call is named k.
Input(d, n) == [j \in 1..n |-> [documentId |-> d, text |-> j]]

\* lines 21-34: the callback of batch.map once getEmbedding has settled
SlotResultMutant(no, j, chunk, run) ==
    Settled(Entry(<<no, j>>, chunk.documentId, chunk.text, run.present, run.values))
SlotResult(no, j, chunk, run) ==
    IF run.outcome = "returned"
    THEN Settled(Entry(<<no, j>>, chunk.documentId, chunk.text, run.present, run.values))
    ELSE Null

\* line 38: results.filter(r => r !== null), as chunks
ValidResultsMutant(results) ==
    LET IsChunk(r) == r.state = "chunk"
        kept == SelectSeq(results, IsChunk)
    IN  [k \in 1..Len(kept) |-> kept[Len(kept) + 1 - k].chunk]
ValidResults(results) ==
    LET IsChunk(r) == r.state = "chunk"
        kept == SelectSeq(results, IsChunk)
    IN  [k \in 1..Len(kept) |-> kept[k].chunk]

\* lines 49-53: the end of addChunks, after the loop
AllFailedMutant(a) == FALSE
AllFailed(a) == Len(a.newChunksWithIds) = 0 /\ Len(a.input) > 0

\* line 53: the index after the call's chunks are appended to it
CommittedMutant(cs, a) == a.before \o a.newChunksWithIds
Committed(cs, a) == cs \o a.newChunksWithIds

Finish(c, a) ==
    IF AllFailed(a)
    THEN /\ adds' = [adds EXCEPT ![c] = [a EXCEPT !.pc = "thrown"]]
         /\ UNCHANGED chunks
         /\ last' = Op("addChunks", 0, chunks)
    ELSE /\ adds' = [adds EXCEPT ![c] = [a EXCEPT !.pc = "returned"]]
         /\ chunks' = Committed(chunks, a)
         /\ last' = Op("addChunks", 0, chunks)

\* lines 17-21: enter the loop body at offset i, or leave the loop
Loop(c, a) ==
    IF a.i < Len(a.input)
    THEN /\ adds' = [adds EXCEPT ![c] =
                [a EXCEPT !.pc = "batch",
                          !.results = [s \in 1..Len(Slice(a.input, a.i, a.i + BATCH_SIZE))
                                          |-> Pending]]]
         /\ UNCHANGED chunks
         /\ last' = NoOp
    ELSE Finish(c, a)

(***************************************************************************)
(* addChunks, one action per stretch of code between two suspensions.      *)
(***************************************************************************)
StoreVecs == {<<1, 0>>}
StoreResponses ==
    {RespValues(v) : v \in StoreVecs}
        \cup {RespError(Msg429), RespError(MsgServer)}

\* what one getEmbedding(text) call of addChunks can come to
StoreRuns ==
    [t \in 1..(MaxChunks + 1) |->
        {getEmbedding(t, DefaultRetries, rs) : rs \in Oracles(StoreResponses)}]

\* lines 12-21: the call, up to its first suspension
AddChunksStart(c, input) ==
    /\ ~InFlight(c)
    /\ nCalls < MaxCalls
    /\ nCalls' = nCalls + 1
    /\ Loop(c, [IdleAdd EXCEPT !.input = input, !.callNo = nCalls + 1,
                               !.before = chunks])

\* lines 22-33: one embedding call of the current group settles
SlotSettle(c, s, runs) ==
    LET a == adds[c]
        j == a.i + s
    IN  /\ a.pc = "batch"
        /\ s \in 1..Len(a.results)
        /\ a.results[s] = Pending
        /\ \E run \in runs[a.input[j].text] :
             adds' = [adds EXCEPT ![c] =
                [a EXCEPT !.results[s] = SlotResult(a.callNo, j, a.input[j], run),
                          !.failed = IF run.outcome = "thrown" THEN @ \cup {j} ELSE @]]
        /\ UNCHANGED <<chunks, nCalls, last>>

\* lines 41-43: the pair handed to onProgress
ProgressReportMutant(a) == <<a.i + BATCH_SIZE, Len(a.input)>>
ProgressReport(a) == <<Min(a.i + BATCH_SIZE, Len(a.input)), Len(a.input)>>

\* lines 36-46: Promise.all resolves; collect, report progress, start the pause
BatchDoneMutant(c) ==
    LET a == adds[c]
    IN  /\ a.pc = "batch"
        /\ \A s \in 1..Len(a.results) : a.results[s] # Pending
        /\ adds' = [adds EXCEPT ![c] =
                [a EXCEPT !.pc = "pause",
                          !.newChunksWithIds = @ \o ValidResults(a.results),
                          !.progress = Append(@, ProgressReport(a))]]
        /\ chunks' = chunks \o ValidResults(a.results)
        /\ UNCHANGED <<nCalls, last>>
BatchDone(c) ==
    LET a == adds[c]
    IN  /\ a.pc = "batch"
        /\ \A s \in 1..Len(a.results) : a.results[s] # Pending
        /\ adds' = [adds EXCEPT ![c] =
                [a EXCEPT !.pc = "pause",
                          !.newChunksWithIds = @ \o ValidResults(a.results),
                          !.progress = Append(@, ProgressReport(a))]]
        /\ UNCHANGED <<chunks, nCalls, last>>

\* lines 46-53: the pause elapses; next group, or the end of the call
PauseElapsedMutant(c) ==
    LET a == adds[c]
    IN  /\ a.pc = "pause"
        /\ Loop(c, [a EXCEPT !.i = @ + 1, !.results = <<>>])
        /\ UNCHANGED nCalls
PauseElapsed(c) ==
    LET a == adds[c]
    IN  /\ a.pc = "pause"
        /\ Loop(c, [a EXCEPT !.i = @ + BATCH_SIZE, !.results = <<>>])
        /\ UNCHANGED nCalls

(***************************************************************************)
(* The synchronous operations of the store.                                *)
(***************************************************************************)
\* lines 59-61
RemoveFilterMutant(cs, documentId) ==
    LET Keep(x) == x.documentId = documentId
    IN  SelectSeq(cs, Keep)
RemoveFilter(cs, documentId) ==
    LET Keep(x) == x.documentId # documentId
    IN  SelectSeq(cs, Keep)

removeDocument(documentId) ==
    /\ chunks' = RemoveFilter(chunks, documentId)
    /\ last' = Op("removeDocument", documentId, chunks)
    /\ UNCHANGED <<adds, nCalls>>

\* lines 101-103
clear ==
    /\ chunks' = <<>>
    /\ last' = Op("clear", 0, chunks)
    /\ UNCHANGED <<adds, nCalls>>

\* lines 97-99
getChunkCount == Len(chunks)

(***************************************************************************)
(* VectorStore.search.  A score is the exact value of                      *)
(* dot / (sqrt(normA) * sqrt(normB)), kept as the fraction num / den of    *)
(* its signed square (num = sign(dot) * dot^2, den = normA * normB), which *)
(* orders and equates scores as the quotient itself does; the rounding of  *)
(* IEEE doubles is not modelled.  A NaN quotient is the score 0.           *)
(***************************************************************************)
RECURSIVE SumTo(_, _)
SumTo(f, n) == IF n = 0 THEN 0 ELSE SumTo(f, n - 1) + f[n]

ZeroMutant == [num |-> 1, den |-> 1]
Zero == [num |-> 0, den |-> 1]

\* lines 84-95
cosineSimilarityMutant(vecA, vecB) ==
    LET dotProduct == SumTo([i \in 1..Len(vecA) |-> vecA[i] * vecB[i]], Len(vecA))
    IN  [num |-> dotProduct, den |-> 1]
cosineSimilarity(vecA, vecB) ==
    IF Len(vecB) < Len(vecA)
    THEN Zero       \* vecB[i] is undefined: every sum is NaN
    ELSE LET dotProduct == SumTo([i \in 1..Len(vecA) |-> vecA[i] * vecB[i]], Len(vecA))
             normA == SumTo([i \in 1..Len(vecA) |-> vecA[i] * vecA[i]], Len(vecA))
             normB == SumTo([i \in 1..Len(vecA) |-> vecB[i] * vecB[i]], Len(vecA))
         IN  IF normA * normB = 0
             THEN Zero      \* 0 / 0 is NaN
             ELSE [num |-> IF dotProduct < 0 THEN 0 - dotProduct * dotProduct
                           ELSE dotProduct * dotProduct,
                   den |-> normA * normB]

\* b.score - a.score, by sign
ScoreLess(x, y) == x.num * y.den < y.num * x.den
ScoreEq(x, y) == x.num * y.den = y.num * x.den

\* lines 71-75
ScoreOf(queryEmbedding, chunk) ==
    IF ~chunk.present THEN Zero ELSE cosineSimilarity(queryEmbedding, chunk.embedding)
Scores(cs, queryEmbedding) ==
    [i \in DOMAIN cs |-> [chunk |-> cs[i], score |-> ScoreOf(queryEmbedding, cs[i])]]

\* Array.prototype.sort with (a, b) => b.score - a.score: a stable sort, so an
\* element goes after every element that does not score less than it.
InsertPlaceMutant(t, x) == Cardinality({i \in DOMAIN t : ScoreLess(x.score, t[i].score)})
InsertPlace(t, x) == Cardinality({i \in DOMAIN t : ~ScoreLess(t[i].score, x.score)})

InsertSorted(t, x) ==
    LET p == InsertPlace(t, x)
    IN  SubSeq(t, 1, p) \o <<x>> \o SubSeq(t, p + 1, Len(t))

RECURSIVE SortDescending(_)
SortDescending(s) ==
    IF s = <<>> THEN <<>>
    ELSE InsertSorted(SortDescending(SubSeq(s, 1, Len(s) - 1)), s[Len(s)])

\* lines 78-81: sort, slice(0, k), map to the chunk
TopKMutant(scores, k) ==
    [i \in 1..Len(scores) |-> SortDescending(scores)[i].chunk]
TopK(scores, k) ==
    LET sorted == SortDescending(scores)
    IN  [i \in 1..Min(k, Len(sorted)) |-> sorted[i].chunk]

NoVector == [present |-> FALSE, values |-> <<>>]
IdleSearch ==
    [pc |-> "idle", query |-> 0, k |-> 0, queryEmbedding |-> NoVector,
     result |-> <<>>, invocations |-> 0, embedOutcome |-> "none", given |-> TRUE]

\* line 67
IndexEmptyMutant(cs) == FALSE
IndexEmpty(cs) == Len(cs) = 0

\* line 66, `k: number = 3`: the k of a call made with arguments <<k>> or <<>>
ParamKMutant(args) == IF args = <<>> THEN SearchK ELSE args[1]
ParamK(args) == IF args = <<>> THEN DefaultK ELSE args[1]

\* lines 66-69: the call search(query, ...args), up to its suspension at
\* getEmbedding
SearchCall(query, args) ==
    /\ srch.pc # "embedding"
    /\ srch' = IF IndexEmpty(chunks)
               THEN [IdleSearch EXCEPT !.pc = "returned", !.query = query,
                                       !.k = ParamK(args), !.given = (args # <<>>)]
               ELSE [IdleSearch EXCEPT !.pc = "embedding", !.query = query,
                                       !.k = ParamK(args), !.given = (args # <<>>)]

SearchStart(query, k) == SearchCall(query, <<k>>)

\* lines 69-75: search raises when getEmbedding has thrown (no catch in search),
\* and when the query embedding is undefined and cosineSimilarity reads
\* vecA.length for a chunk that has an embedding
SearchFailsMutant(run, cs) == FALSE
SearchFails(run, cs) ==
    \/ run.outcome = "thrown"
    \/ ~run.present /\ \E i \in DOMAIN cs : cs[i].present

\* lines 69-81: getEmbedding settles and the rest of search runs
SearchResume(runs) ==
    /\ srch.pc = "embedding"
    /\ \E run \in runs[srch.query] :
         LET vec == [present |-> run.present, values |-> run.values]
             n == Cardinality(Positions(run.trace, "embedContent"))
         IN  srch' = IF SearchFails(run, chunks)
                     THEN [srch EXCEPT !.pc = "thrown", !.invocations = n,
                                       !.queryEmbedding = vec,
                                       !.embedOutcome = run.outcome]
                     ELSE [srch EXCEPT !.pc = "returned", !.invocations = n,
                                       !.queryEmbedding = vec,
                                       !.embedOutcome = run.outcome,
                                       !.result = TopK(Scores(chunks, run.values), srch.k)]

(***************************************************************************)
(* The ingestion orchestrator: chunkText, processFile and the App handlers *)
(* handleGlobalUpload and handleUrlFetch, and DocumentManager's delete.    *)
(* A file is the length of its content and its size in bytes; a document   *)
(* is known by its id.                                                     *)
(***************************************************************************)
\* App state while no ingestion handler runs
IdleUpload ==
    [pc |-> "idle", kind |-> "none", isProcessing |-> FALSE, files |-> <<>>,
     newDocs |-> <<>>, uploadError |-> FALSE, lastSuccess |-> FALSE]

\* chunkText, lines 35-38: the slices [from, to) it takes of a text of len chars
RECURSIVE chunkLoop(_, _, _, _)
chunkLoop(i, len, chunkSize, overlap) ==
    IF ~(i < len) THEN <<>>
    ELSE <<[from |-> i, to |-> Min(i + chunkSize, len)]>>
            \o (IF i + chunkSize >= len THEN <<>>
                ELSE chunkLoop(i + (chunkSize - overlap), len, chunkSize, overlap))

\* chunkText, lines 29-40
chunkSlices(len, chunkSize, overlap) ==
    IF len = 0 THEN <<>> ELSE chunkLoop(0, len, chunkSize, overlap)

\* lines 63-67 of processFile, 81-85 of handleUrlFetch
ChunksOf(docId, len) == Input(docId, Len(chunkSlices(len, ChunkSize, ChunkOverlap)))

FileLens == {0, ChunkSize, ChunkSize + 1}
Files == [len : FileLens, size : {ChunkSize, MaxFileBytes + 1}]
Oversize(file) == file.size > MaxFileBytes

RECURSIVE SkipOversize(_)
SkipOversize(files) ==
    IF files # <<>> /\ Oversize(Head(files)) THEN SkipOversize(Tail(files)) ELSE files

\* handleGlobalUpload lines 30-54: the loop from its head to the next
\* suspension (the read of processFile), or to the end of the handler
Advance(u) ==
    LET rest == SkipOversize(u.files)
        err == u.uploadError \/ rest # u.files
    IN  IF rest = <<>>
        THEN /\ documents' = documents \o u.newDocs
             /\ up' = [IdleUpload EXCEPT !.uploadError = err,
                                         !.lastSuccess = (u.newDocs # <<>>)]
        ELSE /\ up' = [u EXCEPT !.pc = "reading", !.files = rest, !.uploadError = err]
             /\ UNCHANGED documents

\* lines 48-54 and 94-99: catch and finally
Failed(u) == [IdleUpload EXCEPT !.uploadError = TRUE, !.lastSuccess = u.lastSuccess]

\* what the handler does once its addChunks call has settled
AfterAdd(u, a) ==
    IF a.pc = "thrown"
    THEN up' = Failed(u) /\ UNCHANGED documents
    ELSE IF a.pc # "returned"
    THEN up' = [u EXCEPT !.pc = "embedding"] /\ UNCHANGED documents
    ELSE IF u.kind = "url"
    THEN /\ documents' = Append(documents, a.callNo)
         /\ up' = [IdleUpload EXCEPT !.lastSuccess = TRUE]
    ELSE Advance([u EXCEPT !.newDocs = Append(@, a.callNo), !.files = Tail(@)])

\* the chunks a list of files will hand to addChunks, and the calls it takes
RECURSIVE Demand(_)
Demand(files) ==
    IF files = <<>> THEN [chunks |-> 0, calls |-> 0]
    ELSE LET d == Demand(Tail(files))
             f == Head(files)
         IN  IF Oversize(f) THEN d
             ELSE [chunks |-> d.chunks + Len(ChunksOf(0, f.len)), calls |-> d.calls + 1]

Fits(files) ==
    /\ Len(chunks) + Demand(files).chunks <= MaxChunks
    /\ nCalls + Demand(files).calls <= MaxCalls

\* handleGlobalUpload lines 21-36; both upload buttons are disabled meanwhile
handleGlobalUpload(files) ==
    /\ ~up.isProcessing
    /\ files # <<>>
    /\ Advance([IdleUpload EXCEPT !.kind = "files", !.isProcessing = TRUE,
                                  !.files = files])
    /\ UNCHANGED <<storeVars, deleted>>

\* processFile lines 46-70: the content is read, chunked and handed to addChunks
ReadDone ==
    /\ up.pc = "reading"
    /\ \/ /\ up' = Failed(up)
          /\ UNCHANGED <<storeVars, documents, deleted>>
       \/ /\ AddChunksStart(1, ChunksOf(nCalls + 1, Head(up.files).len))
          /\ AfterAdd(up, adds'[1])
          /\ UNCHANGED deleted

\* handleUrlFetch lines 57-65; handleUrlSubmit refuses while uploading
handleUrlFetch(page) ==
    /\ ~up.isProcessing
    /\ up' = [IdleUpload EXCEPT !.pc = "fetching", !.kind = "url",
                                !.isProcessing = TRUE, !.files = <<page>>,
                                !.lastSuccess = up.lastSuccess]
    /\ UNCHANGED <<storeVars, documents, deleted>>

\* handleUrlFetch lines 65-87
FetchDone ==
    /\ up.pc = "fetching"
    /\ \/ /\ up' = Failed(up)
          /\ UNCHANGED <<storeVars, documents, deleted>>
       \/ /\ AddChunksStart(1, ChunksOf(nCalls + 1, Head(up.files).len))
          /\ AfterAdd(up, adds'[1])
          /\ UNCHANGED deleted

\* addChunks runs on for the handler that awaits it
PauseElapsedApp ==
    /\ up.pc = "embedding"
    /\ PauseElapsed(1)
    /\ AfterAdd(up, adds'[1])
    /\ UNCHANGED deleted

\* the timers of lines 46 and 93 clear the success notice
SuccessExpires ==
    /\ up.lastSuccess
    /\ up' = [up EXCEPT !.lastSuccess = FALSE]
    /\ UNCHANGED <<storeVars, documents, deleted>>

\* DocumentManager.deleteDocument, lines 32-38, with onDocumentsChange = setDocuments
deleteDocument(id) ==
    /\ \E k \in DOMAIN documents : documents[k] = id
    /\ documents' = SelectSeq(documents, LAMBDA doc : doc # id)
    /\ deleted' = deleted \cup {id}
    /\ UNCHANGED <<storeVars, up>>

(***************************************************************************)
(* chunkText followed one loop iteration at a time, on a text given as the *)
(* sequence of its UTF-16 code units.                                      *)
(***************************************************************************)
Max(a, b) == IF a > b THEN a ELSE b

\* String.prototype.slice(start, end): a negative index counts from the end
sliceIndex(len, at) == IF at < 0 THEN Max(len + at, 0) ELSE Min(at, len)
slice(text, start, end) ==
    SubSeq(text, sliceIndex(Len(text), start) + 1, sliceIndex(Len(text), end))

\* line 36: where the chunk taken at offset i ends
ChunkEndMutant(i, chunkSize) == i + chunkSize - 1
ChunkEnd(i, chunkSize) == i + chunkSize

\* line 35: the offset of the next chunk
NextOffsetMutant(i, chunkSize, overlap) == i + chunkSize
NextOffset(i, chunkSize, overlap) == i + (chunkSize - overlap)

IdleChunker ==
    [pc |-> "idle", text |-> <<>>, chunkSize |-> 0, overlap |-> 0, i |-> 0,
     chunks |-> <<>>]

\* lines 29-31 and the initialisation and first test of the loop, line 35
chunkTextCall(text, chunkSize, overlap) ==
    /\ ck.pc = "idle"
    /\ ck' = [pc |-> IF text = <<>> THEN "returned" ELSE "loop",
              text |-> text, chunkSize |-> chunkSize, overlap |-> overlap, i |-> 0,
              chunks |-> <<>>]

\* lines 36-37, then the update and the test of line 35: one iteration
chunkTextIterate ==
    /\ ck.pc = "loop"
    /\ Len(ck.chunks) < MaxPushes
    /\ LET pushed == Append(ck.chunks, slice(ck.text, ck.i, ChunkEnd(ck.i, ck.chunkSize)))
           next == NextOffset(ck.i, ck.chunkSize, ck.overlap)
       IN  IF ck.i + ck.chunkSize >= Len(ck.text)
           THEN ck' = [ck EXCEPT !.chunks = pushed, !.pc = "returned"]
           ELSE ck' = [ck EXCEPT !.chunks = pushed, !.i = next,
                                 !.pc = IF next < Len(ck.text) THEN "loop" ELSE "returned"]

(***************************************************************************)
(* ChatInterface.handleSend and GeminiService.generateRagResponse.  The    *)
(* documentName of a chunk is the file name of its document (processFile   *)
(* line 65); the names the user's documents carry are drawn at the start.  *)
(* A message content is the sequence of the fragments appended to it.      *)
(***************************************************************************)
FileNames == {"a.txt", "b.txt"}
Fragments == {"x"}
Blank == 0

IdleChat(names) ==
    [pc |-> "idle", isTyping |-> FALSE, names |-> names, messages |-> <<>>,
     query |-> 0, aiMessageId |-> 0, aiContent |-> <<>>, items |-> 0,
     sends |-> 0, genCalls |-> 0, genFailed |-> FALSE, ignored |-> 0]
IdleChats == {IdleChat([d \in 1..MaxCalls |-> "a.txt"])}

documentName(c, e) == c.names[e.documentId]

\* Array.from(new Set(names)): a Set keeps its values in insertion order
RECURSIVE SetInsertMutant(_, _)
SetInsertMutant(seen, names) ==
    IF names = <<>> THEN seen
    ELSE SetInsertMutant(IF \E i \in DOMAIN seen : seen[i] = Head(names)
                         THEN SelectSeq(seen, LAMBDA x : x # Head(names)) \o <<Head(names)>>
                         ELSE Append(seen, Head(names)),
                         Tail(names))
RECURSIVE SetInsert(_, _)
SetInsert(seen, names) ==
    IF names = <<>> THEN seen
    ELSE SetInsert(IF \E i \in DOMAIN seen : seen[i] = Head(names)
                   THEN seen ELSE Append(seen, Head(names)),
                   Tail(names))

\* line 84
Sources(c, relevantChunks) ==
    SetInsert(<<>>, [i \in DOMAIN relevantChunks |-> documentName(c, relevantChunks[i])])

Message(id, role, content, sources, isError) ==
    [id |-> id, role |-> role, content |-> content,
     hasSources |-> sources # <<>>, sources |-> sources, isError |-> isError]

\* lines 106-115: catch and finally of handleSend
CaughtMutant(c) ==
    [c EXCEPT !.messages = Append(@, Message(Len(@) + 1, "assistant", <<>>, <<>>, TRUE))]
Caught(c) ==
    [c EXCEPT !.messages = Append(@, Message(Len(@) + 1, "assistant", <<>>, <<>>, TRUE)),
              !.pc = "idle", !.isTyping = FALSE]

\* generateRagResponse lines 87-90 (log and rethrow), then handleSend's catch
OnGenerationErrorMutant(c) == [c EXCEPT !.pc = "starting", !.genCalls = @ + 1]
OnGenerationError(c) == Caught(c)

\* lines 82-97 and generateRagResponse lines 69-70: what handleSend does once
\* search has settled as s, up to the await of generateContentStream
AfterSearchMutant(c, s) ==
    IF s.pc = "thrown" THEN Caught(c)
    ELSE LET id == Len(c.messages) + 1
         IN  [c EXCEPT !.messages = Append(@, Message(id, "assistant", <<>>,
                                                       Sources(c, s.result), FALSE)),
                       !.aiMessageId = id, !.aiContent = <<>>,
                       !.pc = "starting", !.genCalls = @ + 1]
AfterSearch(c, s) ==
    IF s.pc = "thrown" THEN Caught(c)
    ELSE IF s.pc # "returned" THEN [c EXCEPT !.pc = "searching"]
    ELSE LET id == Len(c.messages) + 1
         IN  [c EXCEPT !.messages = Append(@, Message(id, "assistant", <<>>,
                                                       Sources(c, s.result), FALSE)),
                       !.aiMessageId = id, !.aiContent = <<>>,
                       !.pc = "starting", !.genCalls = @ + 1]

\* line 68: `if (!input.trim() || isTyping) return;` lets the request through
AcceptsMutant(c, input) == input # Blank
Accepts(c, input) == input # Blank /\ ~c.isTyping

\* lines 66-68: a send request that returns at line 68
handleSendIgnored(input) ==
    /\ ~Accepts(chat, input)
    /\ chat' = [chat EXCEPT !.ignored = @ + 1]
    /\ UNCHANGED srch

\* lines 66-82
handleSend(input) ==
    /\ Accepts(chat, input)
    /\ SearchStart(input, SearchK)
    /\ chat' = AfterSearch(
                 [chat EXCEPT !.messages = Append(@, Message(Len(@) + 1, "user",
                                                             <<input>>, <<>>, FALSE)),
                              !.isTyping = TRUE, !.query = input, !.sends = @ + 1,
                              !.aiMessageId = 0, !.aiContent = <<>>, !.items = 0,
                              !.genCalls = 0, !.genFailed = FALSE],
                 srch')

\* line 82: search settles and handleSend goes on
SearchSettled(runs) ==
    /\ chat.pc = "searching"
    /\ SearchResume(runs)
    /\ chat' = AfterSearch(chat, srch')

\* generateRagResponse line 70: generateContentStream resolves or rejects
StreamOpened ==
    /\ chat.pc = "starting"
    /\ \/ chat' = [chat EXCEPT !.pc = "streaming"]
       \/ chat' = [OnGenerationError(chat) EXCEPT !.genFailed = TRUE]

\* lines 99-104 of handleSend
Appended(c, text) ==
    LET content == Append(c.aiContent, text)
    IN  [c EXCEPT !.aiContent = content,
                  !.messages = [m \in DOMAIN @ |->
                                   IF @[m].id = c.aiMessageId
                                   THEN [@[m] EXCEPT !.content = content] ELSE @[m]]]

\* generateRagResponse lines 81-90: the stream gives its next item
StreamItem ==
    /\ chat.pc = "streaming"
    /\ \/ \E text \in Fragments :
             /\ chat.items < MaxItems
             /\ chat' = [Appended(chat, text) EXCEPT !.items = @ + 1]
       \/ /\ chat.items < MaxItems      \* a chunk without text is not yielded
          /\ chat' = [chat EXCEPT !.items = @ + 1]
       \/ chat' = [OnGenerationError(chat) EXCEPT !.genFailed = TRUE]
       \/ chat' = [chat EXCEPT !.pc = "idle", !.isTyping = FALSE]

(***************************************************************************)
(* SpecEmbed: one getEmbedding(text) call against every provider behaviour.*)
(***************************************************************************)
NoRun ==
    [outcome |-> "none", present |-> FALSE, values |-> <<>>, message |-> NoMessage,
     trace |-> <<>>]
IdleCall == [text |-> 0, responses |-> <<>>, done |-> FALSE, result |-> NoRun]

CallIds == {1, 2}

NoInvocations == [total |-> 0, most |-> 0]

StoreInit ==
    /\ chunks = <<>>
    /\ adds = [c \in CallIds |-> IdleAdd]
    /\ nCalls = 0
    /\ last = NoOp
    /\ srch = IdleSearch
    /\ documents = <<>>
    /\ up = IdleUpload
    /\ deleted = {}
    /\ ck = IdleChunker
    /\ chat \in IdleChats
    /\ removed = {}
    /\ invoked = NoInvocations

InitEmbed ==
    /\ call \in [text : Texts, responses : Oracles(Responses), done : {FALSE},
                 result : {NoRun}]
    /\ StoreInit

EmbedCall ==
    /\ ~call.done
    /\ call.responses # <<>>
    /\ call' = [call EXCEPT !.done = TRUE,
                            !.result = getEmbedding(call.text, DefaultRetries,
                                                    call.responses)]

EmbedOnce == EmbedCall /\ UNCHANGED <<storeVars, srch, appVars, ck, chat, removed, invoked>>

NextEmbed == EmbedOnce

SpecEmbed == InitEmbed /\ [][NextEmbed]_vars

(***************************************************************************)
(* Spec: the store driven through its interface, one operation at a time.  *)
(***************************************************************************)
Init ==
    /\ call = IdleCall
    /\ StoreInit

Quiet == \A c \in CallIds : ~InFlight(c)

StoreStep == UNCHANGED <<call, srch, appVars, ck, chat, removed, invoked>>

StartAdd ==
    \E n \in 0..MaxChunks :
        /\ Quiet
        /\ Len(chunks) + n <= MaxChunks
        /\ AddChunksStart(1, Input(nCalls + 1, n))
        /\ StoreStep
Settle == \E s \in 1..BATCH_SIZE : SlotSettle(1, s, StoreRuns) /\ StoreStep
GroupDone == BatchDone(1) /\ StoreStep
Resume == PauseElapsed(1) /\ StoreStep
Remove == \E d \in Docs : Quiet /\ removeDocument(d) /\ StoreStep
Clear == Quiet /\ clear /\ StoreStep

Next == StartAdd \/ Settle \/ GroupDone \/ Resume \/ Remove \/ Clear

Spec == Init /\ [][Next]_vars

(***************************************************************************)
(* SpecSearch: an index filled by addChunks with every kind of embedding   *)
(* the provider can give, then searched.                                   *)
(***************************************************************************)
SearchVecs == Vecs \cup {<<0, 0>>, <<-1, 0>>}
SearchResponses ==
    {RespValues(v) : v \in SearchVecs} \cup {RespAbsentValues}
SearchRuns ==
    [t \in 1..(MaxSearchIndex + 1) |->
        {getEmbedding(t, DefaultRetries, <<r>> \o [i \in 1..(OracleLen - 1) |-> r])
            : r \in SearchResponses}]
QueryTexts == {1}
QueryRuns ==
    [t \in QueryTexts |->
        {getEmbedding(t, DefaultRetries, rs)
            : rs \in Oracles({RespValues(<<1, 0>>), RespValues(<<1, 1>>), RespValues(<<0, 0>>),
                              RespAbsentValues, RespError(Msg429), RespError(MsgServer)})}]

StartAddS ==
    \E n \in 1..MaxSearchIndex :
        /\ Quiet /\ srch.pc = "idle"
        /\ Len(chunks) + n <= MaxSearchIndex
        /\ AddChunksStart(1, Input(nCalls + 1, n))
        /\ StoreStep
SettleS == \E s \in 1..BATCH_SIZE : SlotSettle(1, s, SearchRuns) /\ StoreStep
SearchStep == UNCHANGED <<call, storeVars, appVars, ck, chat, removed, invoked>>
Search == \E q \in QueryTexts, k \in 0..MaxK : Quiet /\ SearchStart(q, k) /\ SearchStep
Answer == SearchResume(QueryRuns) /\ SearchStep

ClearS == Quiet /\ srch.pc = "idle" /\ chunks # <<>> /\ clear /\ StoreStep

NextSearch == StartAddS \/ SettleS \/ GroupDone \/ Resume \/ ClearS \/ Search \/ Answer

SpecSearch == Init /\ [][NextSearch]_vars

(***************************************************************************)
(* SpecApp: the application.  Documents enter through the two ingestion    *)
(* handlers and leave through the document manager.                        *)
(***************************************************************************)
AppStep == UNCHANGED <<call, srch, ck, chat, removed, invoked>>

Upload ==
    \E files \in UNION {[1..m -> Files] : m \in 1..MaxFiles} :
        Fits(files) /\ handleGlobalUpload(files) /\ AppStep
Read == ReadDone /\ AppStep
UrlFetch == \E page \in Files : Fits(<<page>>) /\ handleUrlFetch(page) /\ AppStep
Fetched == FetchDone /\ AppStep
ResumeApp == PauseElapsedApp /\ AppStep
Delete == \E id \in Docs : deleteDocument(id) /\ AppStep
Expire == SuccessExpires /\ AppStep

NextApp ==
    Upload \/ Read \/ UrlFetch \/ Fetched \/ Settle \/ GroupDone \/ ResumeApp \/ Delete
        \/ Expire

SpecApp == Init /\ [][NextApp]_vars

(***************************************************************************)
(* SpecChunk: one chunkText call on every text, chunkSize and overlap.     *)
(***************************************************************************)
Chars == {"a", "b"}
ChunkTexts == UNION {[1..n -> Chars] : n \in 0..MaxTextLen}

ChunkCall ==
    \E text \in ChunkTexts, chunkSize \in 0..MaxChunkSize, overlap \in 0..MaxChunkSize :
        chunkTextCall(text, chunkSize, overlap)
            /\ UNCHANGED <<call, storeVars, srch, appVars, chat, removed, invoked>>
ChunkIterate == chunkTextIterate /\ UNCHANGED <<call, storeVars, srch, appVars, chat, removed, invoked>>

NextChunk == ChunkCall \/ ChunkIterate

SpecChunk == Init /\ [][NextChunk]_vars

(***************************************************************************)
(* SpecChat: an index of named documents, then questions in the chat.      *)
(***************************************************************************)
InitChat ==
    /\ call = IdleCall
    /\ chunks = <<>>
    /\ adds = [c \in CallIds |-> IdleAdd]
    /\ nCalls = 0
    /\ last = NoOp
    /\ srch = IdleSearch
    /\ documents = <<>>
    /\ up = IdleUpload
    /\ deleted = {}
    /\ ck = IdleChunker
    /\ chat \in {IdleChat(names) : names \in [1..MaxCalls -> FileNames]}
    /\ removed = {}
    /\ invoked = NoInvocations

ChatVecs == {<<1, 0>>, <<0, 1>>}
ChatRuns ==
    [t \in 1..(MaxSearchIndex + 1) |->
        {getEmbedding(t, DefaultRetries, <<RespValues(v)>>) : v \in ChatVecs}]
ChatQueryRuns ==
    [t \in QueryTexts |->
        {getEmbedding(t, DefaultRetries, <<r>>)
            : r \in {RespValues(<<1, 0>>), RespValues(<<1, 1>>), RespError(MsgServer)}}]

StartAddC ==
    \E n \in 1..MaxSearchIndex :
        /\ Quiet /\ chat.sends = 0
        /\ Len(chunks) + n <= MaxSearchIndex
        /\ AddChunksStart(1, Input(nCalls + 1, n))
        /\ StoreStep
SettleC == \E s \in 1..BATCH_SIZE : SlotSettle(1, s, ChatRuns) /\ StoreStep
ChatStep == UNCHANGED <<call, storeVars, appVars, ck, removed, invoked>>
Send ==
    \E input \in QueryTexts :
        Quiet /\ chat.sends < MaxQueries /\ handleSend(input) /\ ChatStep
Found == SearchSettled(ChatQueryRuns) /\ ChatStep
Opened == StreamOpened /\ UNCHANGED <<call, storeVars, srch, appVars, ck, removed, invoked>>
Streamed == StreamItem /\ UNCHANGED <<call, storeVars, srch, appVars, ck, removed, invoked>>

NextChat ==
    StartAddC \/ SettleC \/ GroupDone \/ Resume \/ Send \/ Found \/ Opened \/ Streamed

SpecChat == InitChat /\ [][NextChat]_vars

(***************************************************************************)
(* SpecOverlap: the store with its operations interleaved at every         *)
(* suspension: two callers of addChunks, removeDocument and clear.         *)
(***************************************************************************)
OverlapStep == UNCHANGED <<call, srch, appVars, ck, chat, invoked>>

\* the index an earlier ingestion (of document 0) left behind
Earlier == <<Entry(<<0, 1>>, 0, 1, TRUE, <<1, 0>>)>>

InitOverlap ==
    /\ call = IdleCall
    /\ chunks \in {<<>>, Earlier}
    /\ adds = [c \in CallIds |-> IdleAdd]
    /\ nCalls = 0
    /\ last = NoOp
    /\ srch = IdleSearch
    /\ documents = <<>>
    /\ up = IdleUpload
    /\ deleted = {}
    /\ ck = IdleChunker
    /\ chat \in IdleChats
    /\ removed = {}
    /\ invoked = NoInvocations

\* each of the two callers ingests one document
StartAddO ==
    \E c \in CallIds, n \in 1..MaxOverlapInput :
        /\ adds[c].pc = "idle"
        /\ AddChunksStart(c, Input(nCalls + 1, n)) /\ OverlapStep /\ UNCHANGED removed
SettleO ==
    \E c \in CallIds, s \in 1..BATCH_SIZE :
        SlotSettle(c, s, StoreRuns) /\ OverlapStep /\ UNCHANGED removed
GroupDoneO == \E c \in CallIds : BatchDone(c) /\ OverlapStep /\ UNCHANGED removed
ResumeO == \E c \in CallIds : PauseElapsed(c) /\ OverlapStep /\ UNCHANGED removed
\* each document is removed once, and the index is cleared while some document
\* has not been removed yet
RemoveO ==
    \E d \in (1..nCalls) \ removed :
        removeDocument(d) /\ removed' = removed \cup {d} /\ OverlapStep
ClearO ==
    /\ (1..nCalls) \ removed # {}
    /\ clear /\ removed' = removed \cup (1..nCalls) /\ OverlapStep

NextOverlap == StartAddO \/ SettleO \/ GroupDoneO \/ ResumeO \/ RemoveO \/ ClearO

SpecOverlap == InitOverlap /\ [][NextOverlap]_vars

(***************************************************************************)
(* SpecObserve: search and getChunkCount beside one addChunks call of up   *)
(* to two groups, interleaved at every suspension.                         *)
(***************************************************************************)
ObserveRuns ==
    [t \in QueryTexts |->
        {getEmbedding(t, DefaultRetries, <<r>>)
            : r \in {RespValues(<<1, 0>>), RespError(MsgServer)}}]
\* the k of the chat boundary, and a k that no index of the model exceeds
ObserveK == {SearchK, MaxChunks + 1}

StartAddV ==
    \E n \in 1..MaxChunks :
        /\ adds[1].pc = "idle"
        /\ AddChunksStart(1, Input(nCalls + 1, n))
        /\ StoreStep
SearchV == \E q \in QueryTexts, k \in ObserveK : SearchStart(q, k) /\ SearchStep
AnswerV == SearchResume(ObserveRuns) /\ SearchStep

NextObserve == StartAddV \/ Settle \/ GroupDone \/ Resume \/ SearchV \/ AnswerV

SpecObserve == InitOverlap /\ [][NextObserve]_vars

(***************************************************************************)
(* SpecBudget: one addChunks call against a provider that answers every    *)
(* invocation, with the invocations made for each chunk counted.           *)
(***************************************************************************)
BudgetStep == UNCHANGED <<call, srch, appVars, ck, chat, removed>>

StartAddB ==
    \E n \in 0..MaxChunks :
        /\ adds[1].pc = "idle"
        /\ AddChunksStart(1, Input(nCalls + 1, n))
        /\ invoked' = NoInvocations
        /\ BudgetStep
\* getEmbedding(chunk.text) settles as run, after the invocations of its trace
SettleB ==
    \E s \in 1..BATCH_SIZE :
        /\ adds[1].pc = "batch" /\ s \in 1..Len(adds[1].results)
        /\ LET j == adds[1].i + s
           IN  \E run \in StoreRuns[adds[1].input[j].text] :
                   /\ SlotSettle(1, s, [t \in DOMAIN StoreRuns |-> {run}])
                   /\ LET m == Cardinality(Positions(run.trace, "embedContent"))
                      IN  invoked' = [total |-> invoked.total + m,
                                      most |-> Max(invoked.most, m)]
        /\ BudgetStep
GroupDoneB == BatchDone(1) /\ BudgetStep /\ UNCHANGED invoked
ResumeB == PauseElapsed(1) /\ BudgetStep /\ UNCHANGED invoked

NextBudget == StartAddB \/ SettleB \/ GroupDoneB \/ ResumeB

\* every provider invocation returns, Promise.all resolves once its promises
\* have settled, and the 150 ms timer fires
SpecBudget ==
    /\ InitOverlap /\ [][NextBudget]_vars
    /\ WF_vars(SettleB) /\ WF_vars(GroupDoneB) /\ WF_vars(ResumeB)

(***************************************************************************)
(* SpecTopK: an index of up to MaxChunks entries, searched with a k, with  *)
(* no k, and by the chat boundary.                                         *)
(***************************************************************************)
StartAddK ==
    \E n \in 1..MaxChunks :
        /\ adds[1].pc = "idle" /\ srch.pc = "idle" /\ chat.sends = 0
        /\ AddChunksStart(1, Input(nCalls + 1, n))
        /\ StoreStep
SearchGiven ==
    \E q \in QueryTexts, k \in 0..MaxK :
        Quiet /\ chat.sends = 0 /\ SearchCall(q, <<k>>) /\ SearchStep
SearchOmitted ==
    \E q \in QueryTexts : Quiet /\ chat.sends = 0 /\ SearchCall(q, <<>>) /\ SearchStep
AnswerK == chat.sends = 0 /\ SearchResume(ObserveRuns) /\ SearchStep

NextTopK ==
    \/ StartAddK \/ Settle \/ GroupDone \/ Resume
    \/ SearchGiven \/ SearchOmitted \/ AnswerK
    \/ Send \/ Found \/ Opened \/ Streamed

SpecTopK == Init /\ [][NextTopK]_vars

(***************************************************************************)
(* SpecSend: send requests of every kind, also blank ones and ones made    *)
(* while a query is in flight, against providers that answer every call.   *)
(***************************************************************************)
StartAddQ ==
    \E n \in 1..MaxOverlapInput :
        /\ adds[1].pc = "idle" /\ chat.sends = 0
        /\ AddChunksStart(1, Input(nCalls + 1, n))
        /\ StoreStep
SendQ ==
    \E input \in QueryTexts \cup {Blank} :
        Quiet /\ chat.sends < MaxSends /\ handleSend(input) /\ ChatStep
Ignored ==
    \E input \in QueryTexts \cup {Blank} :
        chat.ignored < MaxIgnored /\ handleSendIgnored(input) /\ ChatStep

NextSend ==
    \/ StartAddQ \/ Settle \/ GroupDone \/ Resume
    \/ SendQ \/ Ignored \/ Found \/ Opened \/ Streamed

\* the query embedding settles, generateContentStream settles, and the stream
\* gives its next item or ends
SpecSend ==
    /\ Init /\ [][NextSend]_vars
    /\ WF_vars(Found) /\ WF_vars(Opened) /\ WF_vars(Streamed)

(***************************************************************************)
(* Claims about the embedding client (SpecEmbed).                          *)
(***************************************************************************)
CountOp(tr, op) == Cardinality(Positions(tr, op))

\* the provider's responses, classified from outside the client
RateLimitSignal(r) == r.kind = "error" /\ r.message \in {Msg429, MsgRate}
OtherFailure(r) ==
    \/ r.kind = "noEmbeddings"
    \/ r.kind = "error" /\ r.message \in {MsgServer, MsgLimitRate, NoMessage}
Success(r) == r.kind \in {"values", "absentValues"}
FailureMessage(r) == IF r.kind = "noEmbeddings" THEN MsgNoEmbedding ELSE r.message

\* C3: one getEmbedding(text) call invokes the provider at most 3 times, always
\* with the same text; every invocation after the first follows a rate-limit
\* failure of the previous one and exactly one backoff wait, and every wait is
\* followed by an invocation; rate limit then success gives a successful result
\* after one wait and two invocations; three rate-limit failures in a row
\* propagate the third to the caller.
C3_RetryPolicy ==
    call.done =>
        LET tr == call.result.trace
            rs == call.responses
            n == CountOp(tr, "embedContent")
        IN  /\ n >= 1 /\ n <= DefaultRetries + 1
            /\ \A i \in Positions(tr, "embedContent") : tr[i].text = call.text
            /\ tr[1].op = "embedContent"
            /\ \A i \in Positions(tr, "embedContent") :
                 i > 1 => /\ tr[i - 1] = EvWait
                          /\ tr[i - 2].op = "embedContent"
            /\ \A i \in Positions(tr, "wait") :
                 i < Len(tr) /\ tr[i + 1].op = "embedContent" /\ tr[i].ms = RetryDelayMs
            /\ CountOp(tr, "wait") = n - 1
            /\ \A k \in 1..(n - 1) : RateLimitSignal(rs[k])
            /\ (RateLimitSignal(rs[1]) /\ Success(rs[2])) =>
                 /\ call.result.outcome = "returned"
                 /\ call.result.values = rs[2].values
                 /\ n = 2 /\ CountOp(tr, "wait") = 1
            /\ (\A k \in 1..(DefaultRetries + 1) : RateLimitSignal(rs[k])) =>
                 /\ call.result.outcome = "thrown"
                 /\ call.result.message = rs[DefaultRetries + 1].message
                 /\ n = DefaultRetries + 1

C3_Witness ==
    /\ call.done
    /\ RateLimitSignal(call.responses[1])
    /\ call.responses[2].kind = "values"
    /\ call.result.outcome = "returned"
    /\ CountOp(call.result.trace, "embedContent") = 2

\* C4: a provider failure that is not a rate-limit signal ends the call at that
\* attempt: it is the last invocation, no wait follows it, and the caller gets
\* that failure, whatever retry budget is left.
C4_OtherFailurePropagates ==
    call.done =>
        LET tr == call.result.trace
            rs == call.responses
            n == CountOp(tr, "embedContent")
        IN  \A k \in 1..n :
                OtherFailure(rs[k]) =>
                    /\ k = n
                    /\ call.result.outcome = "thrown"
                    /\ call.result.message = FailureMessage(rs[k])
                    /\ CountOp(tr, "wait") = k - 1
                    /\ tr[Len(tr)].op # "wait"
                    /\ tr[Len(tr) - 1] = EvInvoke(call.text)

C4_Witness ==
    /\ call.done
    /\ RateLimitSignal(call.responses[1])
    /\ OtherFailure(call.responses[2])
    /\ call.result.outcome = "thrown"
    /\ CountOp(call.result.trace, "embedContent") = 2

(***************************************************************************)
(* Claims about addChunks and removeDocument (Spec).                       *)
(***************************************************************************)
\* how many entries of the index stem from chunk j of call number no
Copies(no, j) == Cardinality({k \in DOMAIN chunks : chunks[k].id = <<no, j>>})

JustAdded == last.op = "addChunks"

\* C1: an addChunks call on n >= 2 chunks of which f fail to embed, 0 < f < n,
\* returns without raising, the count grows by exactly n - f, no failed chunk is
\* in the index and every surviving chunk is in it exactly once.
C1_PartialFailure ==
    LET a == adds[1]
        n == Len(a.input)
        f == Cardinality(a.failed)
    IN  (JustAdded /\ n >= 2 /\ 0 < f /\ f < n) =>
            /\ a.pc = "returned"
            /\ getChunkCount = Len(a.before) + n - f
            /\ SubSeq(chunks, 1, Len(a.before)) = a.before
            /\ \A j \in 1..n :
                 /\ Copies(a.callNo, j) = IF j \in a.failed THEN 0 ELSE 1
                 /\ j \notin a.failed =>
                      \E k \in (Len(a.before) + 1)..Len(chunks) :
                          /\ chunks[k].id = <<a.callNo, j>>
                          /\ chunks[k].text = a.input[j].text
                          /\ chunks[k].documentId = a.input[j].documentId

C1_Witness ==
    LET a == adds[1]
    IN  /\ JustAdded /\ a.pc = "returned"
        /\ Len(a.input) > BATCH_SIZE
        /\ \E j \in a.failed : j <= BATCH_SIZE
        /\ \E j \in a.failed : j > BATCH_SIZE
        /\ Cardinality(a.failed) < Len(a.input)
        /\ getChunkCount = Len(a.input) - Cardinality(a.failed)

\* C2: when every chunk of a non-empty input fails to embed, addChunks raises
\* and the index is exactly what it was before the call.
C2_TotalFailure ==
    LET a == adds[1]
    IN  (JustAdded /\ Len(a.input) > 0 /\ a.failed = 1..Len(a.input)) =>
            /\ a.pc = "thrown"
            /\ chunks = a.before
            /\ getChunkCount = Len(a.before)

C2_Witness ==
    LET a == adds[1]
    IN  /\ JustAdded /\ a.pc = "thrown"
        /\ Len(a.input) >= 2
        /\ a.failed = 1..Len(a.input)
        /\ chunks # <<>>

\* position of the entry with this id in a sequence of entries (0: none)
PositionOf(cs, id) ==
    IF \E k \in DOMAIN cs : cs[k].id = id
    THEN CHOOSE k \in DOMAIN cs : cs[k].id = id
    ELSE 0

\* C6: removeDocument(d) leaves the prior index without the entries of d, the
\* others in their prior relative order; without a matching entry it changes
\* nothing; a second removeDocument(d) changes nothing more; and it empties an
\* index whose entries all belong to d.
C6_RemoveDocument ==
    last.op = "removeDocument" =>
        LET d == last.documentId
            b == last.before
            kept == {k \in DOMAIN b : b[k].documentId # d}
        IN  /\ Len(chunks) = Cardinality(kept)
            /\ \A k \in DOMAIN chunks : chunks[k].documentId # d
            /\ \A k \in kept : PositionOf(chunks, b[k].id) > 0
            /\ \A k \in DOMAIN chunks :
                 /\ PositionOf(b, chunks[k].id) > 0
                 /\ chunks[k] = b[PositionOf(b, chunks[k].id)]
            /\ \A k, m \in DOMAIN chunks :
                 k < m => PositionOf(b, chunks[k].id) < PositionOf(b, chunks[m].id)
            /\ (kept = DOMAIN b) => chunks = b
            /\ RemoveFilter(chunks, d) = chunks
            /\ (kept = {}) => getChunkCount = 0

C6_Witness ==
    /\ last.op = "removeDocument"
    /\ \E k \in DOMAIN last.before : last.before[k].documentId = last.documentId
    /\ Len(chunks) >= 2
    /\ Len(chunks) < Len(last.before)

\* the single-document case of C6: a removal that emptied a non-empty index
C6_SingleDocumentReached ==
    /\ last.op = "removeDocument"
    /\ last.before # <<>>
    /\ chunks = <<>>

(***************************************************************************)
(* Claims about search (SpecSearch).  While a search is in flight or has   *)
(* just answered, the index is the one it was called on.                   *)
(***************************************************************************)
Called == srch.pc \in {"embedding", "returned", "thrown"}
Returned == srch.pc = "returned"

\* the score of an index entry against the embedding the query got
Sim(e) == ScoreOf(srch.queryEmbedding.values, e)

\* place of an index entry in the result (0: left out)
Rank(e) == PositionOf(srch.result, e.id)

\* C7: search on an empty index returns the empty sequence at once, without
\* any invocation of the embedding provider, whatever the query and k.
C7_EmptyIndex ==
    (Called /\ chunks = <<>>) =>
        /\ srch.pc = "returned"
        /\ srch.result = <<>>
        /\ srch.invocations = 0

C7_Witness ==
    /\ Returned /\ chunks = <<>>
    /\ srch.k > 0
    /\ last.op = "clear" /\ last.before # <<>>

\* C8: a successful search(q, k) returns at most k entries, each an entry of
\* the index and none twice, in order of non-increasing similarity to the query
\* vector, and no entry left out scores strictly higher than a returned one.
C8_TopK ==
    Returned =>
        LET r == srch.result
        IN  /\ Len(r) <= srch.k
            /\ \A i \in DOMAIN r : \E m \in DOMAIN chunks : chunks[m] = r[i]
            /\ \A i, j \in DOMAIN r : i # j => r[i].id # r[j].id
            /\ \A i, j \in DOMAIN r : i < j => ~ScoreLess(Sim(r[i]), Sim(r[j]))
            /\ \A m \in DOMAIN chunks, i \in DOMAIN r :
                 Rank(chunks[m]) = 0 => ~ScoreLess(Sim(r[i]), Sim(chunks[m]))

C8_Witness ==
    /\ Returned
    /\ Len(chunks) = 3 /\ srch.k = 2 /\ Len(srch.result) = 2
    /\ ScoreLess(Sim(srch.result[2]), Sim(srch.result[1]))
    /\ ScoreLess(Sim(chunks[1]), Sim(srch.result[2]))
    /\ Sim(chunks[1]).num < 0

\* C9: of two entries with equal similarity to the query the one stored earlier
\* comes first in the result, and when only one of them is returned it is the
\* earlier one.
C9_StableTies ==
    Returned =>
        \A a, b \in DOMAIN chunks :
            (a < b /\ ScoreEq(Sim(chunks[a]), Sim(chunks[b])) /\ Rank(chunks[b]) > 0) =>
                /\ Rank(chunks[a]) > 0
                /\ Rank(chunks[a]) < Rank(chunks[b])

C9_Witness ==
    /\ Returned
    /\ Len(chunks) = 3 /\ srch.k = 2
    /\ chunks[2].present /\ chunks[3].present
    /\ chunks[2].embedding # chunks[3].embedding
    /\ ScoreEq(Sim(chunks[2]), Sim(chunks[3]))
    /\ ScoreLess(Sim(chunks[2]), Sim(chunks[1]))
    /\ Rank(chunks[2]) = 2 /\ Rank(chunks[3]) = 0

\* C10: with three chunks of one document embedded as [1,0], [0,1] and [1,1],
\* in any order, and a query embedded as [1,0], search(query, 2) returns the
\* [1,0] chunk (similarity 1) and then the [1,1] chunk (similarity 1/sqrt 2).
Scenario ==
    /\ Len(chunks) = 3
    /\ \A m \in DOMAIN chunks : chunks[m].present /\ chunks[m].documentId = chunks[1].documentId
    /\ {chunks[m].embedding : m \in DOMAIN chunks} = {<<1, 0>>, <<0, 1>>, <<1, 1>>}
    /\ srch.queryEmbedding = [present |-> TRUE, values |-> <<1, 0>>]
    /\ srch.k = 2

C10_Scenario ==
    (Returned /\ Scenario) =>
        LET r == srch.result
        IN  /\ Len(r) = 2
            /\ r[1].embedding = <<1, 0>> /\ ScoreEq(Sim(r[1]), [num |-> 1, den |-> 1])
            /\ r[2].embedding = <<1, 1>> /\ ScoreEq(Sim(r[2]), [num |-> 1, den |-> 2])
            /\ \A m \in DOMAIN chunks :
                 chunks[m].embedding = <<0, 1>> => Rank(chunks[m]) = 0 /\ Sim(chunks[m]) = Zero

C10_Witness ==
    /\ Returned /\ Scenario
    /\ chunks[1].embedding = <<0, 1>>
    /\ chunks[2].embedding = <<1, 1>>
    /\ chunks[3].embedding = <<1, 0>>
    /\ Len(srch.result) = 2

(***************************************************************************)
(* Claims about the application (SpecApp).                                 *)
(***************************************************************************)
\* C5: after a document has been deleted through the document manager, the
\* index holds no entry whose documentId is that document's id.
\* deleteDocument only filters the list of documents: the entries stay.
C5_DeleteRemovesVectors ==
    \A d \in deleted : \A k \in DOMAIN chunks : chunks[k].documentId # d


(***************************************************************************)
(* Claims about the chunker (SpecChunk).                                   *)
(***************************************************************************)
ValidParameters == ck.chunkSize > ck.overlap /\ ck.overlap >= 0
ChunkReturned == ck.pc = "returned"
Step == ck.chunkSize - ck.overlap
\* the 0-based offset where the j-th chunk (1-based) starts
OffsetOf(j) == (j - 1) * Step

\* C11: with size > overlap >= 0, chunkText returns [] for the empty text;
\* otherwise chunk j is the substring at offset j*(size-overlap) of length
\* size cut at the end of the text, every chunk but the last has length
\* size, the last is non-empty and ends at the end of the text, and no chunk
\* follows one that reached the end.
C11_ChunkText ==
    (ChunkReturned /\ ValidParameters) =>
        LET n == Len(ck.chunks)
            len == Len(ck.text)
        IN  IF ck.text = <<>> THEN ck.chunks = <<>>
            ELSE /\ n >= 1
                 /\ \A j \in 1..n :
                        ck.chunks[j] = SubSeq(ck.text, OffsetOf(j) + 1,
                                              Min(OffsetOf(j) + ck.chunkSize, len))
                 /\ \A j \in 1..(n - 1) :
                        /\ Len(ck.chunks[j]) = ck.chunkSize
                        /\ OffsetOf(j) + ck.chunkSize < len
                 /\ Len(ck.chunks[n]) >= 1
                 /\ OffsetOf(n) + Len(ck.chunks[n]) = len

\* a text of five characters cut by three with an overlap of one
C11_Witness ==
    /\ ChunkReturned
    /\ Len(ck.text) = 5 /\ ck.chunkSize = 3 /\ ck.overlap = 1
    /\ Len(ck.chunks) = 2
    /\ Len(ck.chunks[2]) = 3

\* the last k code units of a chunk, and a chunk without its first k
LastOf(c, k) == SubSeq(c, Len(c) - k + 1, Len(c))
FirstOf(c, k) == SubSeq(c, 1, k)
StripFirst(c, k) == SubSeq(c, k + 1, Len(c))

RECURSIVE Rebuild(_, _)
Rebuild(cs, k) ==
    IF cs = <<>> THEN <<>>
    ELSE IF Len(cs) = 1 THEN cs[1]
    ELSE Rebuild(SubSeq(cs, 1, Len(cs) - 1), k) \o StripFirst(cs[Len(cs)], k)

\* C12: with size > overlap >= 0, the last `overlap` characters of a chunk
\* are the first `overlap` characters of the next one (unless the next one
\* is the final chunk and shorter than overlap), and the first chunk followed
\* by every later chunk without its first `overlap` characters is the text.
C12_OverlapAndCoverage ==
    (ChunkReturned /\ ValidParameters) =>
        LET n == Len(ck.chunks)
        IN  /\ \A j \in 1..(n - 1) :
                   \/ j + 1 = n /\ Len(ck.chunks[n]) < ck.overlap
                   \/ /\ Len(ck.chunks[j]) >= ck.overlap
                      /\ Len(ck.chunks[j + 1]) >= ck.overlap
                      /\ LastOf(ck.chunks[j], ck.overlap)
                            = FirstOf(ck.chunks[j + 1], ck.overlap)
            /\ Rebuild(ck.chunks, ck.overlap) = ck.text

\* four chunks of two characters that overlap by one
C12_Witness ==
    /\ ChunkReturned
    /\ ck.text = <<"a", "b", "a", "b", "b">> /\ ck.chunkSize = 2 /\ ck.overlap = 1
    /\ Len(ck.chunks) = 4
    /\ ck.chunks[2] = <<"b", "a">>

\* C13: a call with chunkSize <= overlap ends with an error: it neither
\* returns a chunk sequence nor goes on producing chunks.
\* chunkText has no check of its parameters: such a call returns the whole
\* text when it fits one chunk, and otherwise pushes chunks without end.
C13_InvalidParametersFail ==
    (ck.pc # "idle" /\ ck.chunkSize <= ck.overlap) =>
        (ck.pc # "returned" /\ ck.chunks = <<>>)

(***************************************************************************)
(* More claims about the embedding client (SpecEmbed).                     *)
(***************************************************************************)
\* C14: getEmbedding never completes successfully with an absent or
\* zero-length vector.
\* Line 31 returns response.embeddings[0].values as it is: only a missing or
\* empty embeddings array is refused (line 26).
C14_NeverEmptyVector ==
    (call.done /\ call.result.outcome = "returned") =>
        (call.result.present /\ Len(call.result.values) > 0)

(***************************************************************************)
(* More claims about the index (SpecSearch).                               *)
(***************************************************************************)
\* C15: every entry of the index has a present, non-empty embedding.
\* addChunks drops a chunk only when getEmbedding throws (lines 30-33); a
\* call that returns undefined values gives an entry without embedding,
\* which search ranks with the score 0 (lines 72-74).
C15_StoredEmbeddingsPresent ==
    \A k \in DOMAIN chunks : chunks[k].present /\ Len(chunks[k].embedding) > 0

(***************************************************************************)
(* More claims about the application (SpecApp).                            *)
(***************************************************************************)
\* C16: a document is in the documents list only if its ingestion left at
\* least one of its chunks in the index.
\* addChunks throws only for a non-empty input (line 49): content that gives
\* no chunk is ingested "successfully" and its document is listed.
C16_ListedOnlyIfSearchable ==
    \A d \in DOMAIN documents :
        \E k \in DOMAIN chunks : chunks[k].documentId = documents[d]

(***************************************************************************)
(* Claims about the chat (SpecChat).                                       *)
(***************************************************************************)
\* an assistant message has been created for the query in hand
Answering == chat.aiMessageId # 0
AiMessage == chat.messages[chat.aiMessageId]
\* the documentNames of the chunks search returned, in order
RetrievedNames ==
    [i \in DOMAIN srch.result |-> chat.names[srch.result[i].documentId]]
FirstAt(names, x) ==
    CHOOSE i \in DOMAIN names : names[i] = x /\ \A j \in 1..(i - 1) : names[j] # x

\* C17: the sources of the answer hold each distinct documentName of the
\* retrieved chunks exactly once, in the order of first occurrence.
C17_Sources ==
    Answering =>
        LET src == AiMessage.sources
            names == RetrievedNames
        IN  /\ \A i \in DOMAIN names :
                   Cardinality({j \in DOMAIN src : src[j] = names[i]}) = 1
            /\ \A j \in DOMAIN src : \E i \in DOMAIN names : names[i] = src[j]
            /\ \A j1, j2 \in DOMAIN src :
                   j1 < j2 => FirstAt(names, src[j1]) < FirstAt(names, src[j2])
            /\ AiMessage.hasSources = (names # <<>>)

\* three chunks retrieved, the first and the third of one name
C17_Witness ==
    /\ Answering
    /\ RetrievedNames = <<"a.txt", "b.txt", "a.txt">>
    /\ AiMessage.sources = <<"a.txt", "b.txt">>

\* C18: a failure of the generation provider is not retried: the provider
\* is invoked once for the query, nothing is appended to the answer after
\* the failure, and the chat shows an error message.
C18_NoGenerationRetry ==
    /\ chat.genCalls <= 1
    /\ chat.genFailed =>
          /\ chat.genCalls = 1
          /\ chat.pc = "idle" /\ ~chat.isTyping
          /\ chat.messages[Len(chat.messages)].isError
          /\ chat.messages[Len(chat.messages)].role = "assistant"
          /\ AiMessage.content = chat.aiContent

\* the stream failed after one fragment had been appended
C18_Witness ==
    /\ chat.genFailed
    /\ chat.aiContent = <<"x">>
    /\ Len(chat.messages) = 3

(***************************************************************************)
(* Claims about the similarity score (SpecSearch).                         *)
(***************************************************************************)
SquaredNorm(v) == SumTo([i \in DOMAIN v |-> v[i] * v[i]], Len(v))
ZeroNorm(v) == SquaredNorm(v) = 0

\* C19: the score of every entry is a defined number, and it is 0 when the
\* query vector or the entry's vector has zero norm; a query of zero norm
\* therefore returns the first k entries in index order.
C19_ZeroNormScore ==
    (Returned /\ srch.queryEmbedding.present) =>
        LET q == srch.queryEmbedding.values
        IN  /\ \A m \in DOMAIN chunks :
                   /\ Sim(chunks[m]).den > 0
                   /\ (ZeroNorm(q) \/ ~chunks[m].present \/ ZeroNorm(chunks[m].embedding))
                         => Sim(chunks[m]).num = 0
            /\ ZeroNorm(q) =>
                   srch.result = SubSeq(chunks, 1, Min(srch.k, Len(chunks)))

\* a zero vector in the index next to a vector along the query
C19_Witness ==
    /\ Returned
    /\ srch.queryEmbedding.present /\ srch.queryEmbedding.values = <<1, 0>>
    /\ Len(chunks) = 2 /\ srch.k = 2
    /\ chunks[1].present /\ chunks[1].embedding = <<0, 0>>
    /\ chunks[2].present /\ chunks[2].embedding = <<1, 1>>
    /\ srch.result = <<chunks[2], chunks[1]>>

(***************************************************************************)
(* Claims about the progress reports of addChunks (Spec).                  *)
(***************************************************************************)
Groups(n) == (n + BATCH_SIZE - 1) \div BATCH_SIZE

\* C20: a call on n > 0 chunks reports once per group of 5, after the
\* embedding calls of the group have settled; every report is (processed, n)
\* with 0 < processed <= n, processed never decreases, and the last report
\* is (n, n), whatever failed.
C20_Progress ==
    LET a == adds[1]
        n == Len(a.input)
        p == a.progress
    IN  (a.pc # "idle" /\ n > 0) =>
            /\ \A j \in DOMAIN p : p[j][2] = n /\ 0 < p[j][1] /\ p[j][1] <= n
            /\ \A j \in 1..(Len(p) - 1) : p[j][1] <= p[j + 1][1]
            /\ a.pc = "batch" => Len(p) = a.i \div BATCH_SIZE
            /\ a.pc = "pause" =>
                   /\ Len(p) = a.i \div BATCH_SIZE + 1
                   /\ \A s \in DOMAIN a.results : a.results[s] # Pending
            /\ a.pc \in {"returned", "thrown"} =>
                   /\ Len(p) = Groups(n)
                   /\ p[Len(p)] = <<n, n>>

\* six chunks, two groups, every embedding failed
C20_Witness ==
    /\ adds[1].pc = "thrown"
    /\ Len(adds[1].input) = 6
    /\ adds[1].progress = <<<<5, 6>>, <<6, 6>>>>

(***************************************************************************)
(* Claims about the groups of one addChunks call (Spec).                   *)
(***************************************************************************)
\* the input positions whose embedding call is in flight
InFlightCalls(a) ==
    IF a.pc = "batch"
    THEN {a.i + s : s \in {t \in DOMAIN a.results : a.results[t] = Pending}}
    ELSE {}
\* the 0-based group of input position j
GroupOf(j) == (j - 1) \div BATCH_SIZE

\* C21: at most 5 embedding calls of one addChunks call are in flight, and
\* the calls of a group start together, only once every call of the group
\* before has settled and the pause after it has elapsed.
C21_Step ==
    LET a == adds[1]
        b == adds'[1]
        sameCall == b.callNo = a.callNo
        started == IF sameCall THEN InFlightCalls(b) \ InFlightCalls(a)
                   ELSE InFlightCalls(b)
    IN  /\ Cardinality(InFlightCalls(b)) <= BATCH_SIZE
        /\ started # {} =>
              /\ \A j1, j2 \in started : GroupOf(j1) = GroupOf(j2)
              /\ sameCall =>
                    /\ a.pc = "pause"
                    /\ InFlightCalls(a) = {}
                    /\ \A j \in started : /\ GroupOf(j) = a.i \div BATCH_SIZE + 1
                                          /\ Len(a.progress) = GroupOf(j)
              /\ ~sameCall => \A j \in started : GroupOf(j) = 0
C21_BoundedGroups == [][C21_Step]_vars

\* the second group of a call is in flight
C21_Witness ==
    /\ adds[1].pc = "batch"
    /\ adds[1].i = BATCH_SIZE
    /\ InFlightCalls(adds[1]) = {6}
    /\ Len(adds[1].progress) = 1

\* C22: the chunks one addChunks call appends stand in the order of its
\* input, after every entry the index held at the append, whatever the
\* order in which the embedding calls settled.
C22_InputOrder ==
    (JustAdded /\ adds[1].pc = "returned") =>
        LET a == adds[1]
            new == SubSeq(chunks, Len(last.before) + 1, Len(chunks))
        IN  /\ SubSeq(chunks, 1, Len(last.before)) = last.before
            /\ \A k \in DOMAIN new : new[k].id[1] = a.callNo
            /\ \A k1, k2 \in DOMAIN new : k1 < k2 => new[k1].id[2] < new[k2].id[2]
            /\ {new[k].id[2] : k \in DOMAIN new} = (1..Len(a.input)) \ a.failed

\* a call of six chunks, the second of which is dropped: five entries arrive in input order
C22_Witness ==
    /\ JustAdded /\ adds[1].pc = "returned"
    /\ Len(adds[1].input) = 6 /\ adds[1].failed = {2}
    /\ Len(chunks) = 5


(***************************************************************************)
(* Claims about overlapping store operations (SpecOverlap).                *)
(***************************************************************************)
BothReturned == \A c \in CallIds : adds[c].pc = "returned"
Overlapped == BothReturned /\ adds[1].before = adds[2].before
OfDocument(cs, d) == SelectSeq(cs, LAMBDA e : e.documentId = d)
Initial == OfDocument(chunks, 0)

\* C23: once two addChunks calls that ran interleaved on the same index have
\* both returned (and nothing was removed meanwhile), the index holds every
\* entry that was there before and every surviving chunk of both calls, each
\* exactly once.
C23_NoLostAppend ==
    (BothReturned /\ removed = {}) =>
        /\ \A c \in CallIds :
              LET a == adds[c]
              IN  /\ OfDocument(chunks, a.callNo) = a.newChunksWithIds
                  /\ {a.newChunksWithIds[k].id : k \in DOMAIN a.newChunksWithIds}
                        = {<<a.callNo, j>> : j \in (1..Len(a.input)) \ a.failed}
                  /\ Len(a.newChunksWithIds) = Len(a.input) - Cardinality(a.failed)
                  /\ \A k \in DOMAIN a.before :
                        \E m \in DOMAIN chunks : chunks[m] = a.before[k]
        /\ Len(chunks) = Len(Initial) + Len(adds[1].newChunksWithIds)
                                      + Len(adds[2].newChunksWithIds)
        /\ \A k, m \in DOMAIN chunks : chunks[k].id = chunks[m].id => k = m

\* two calls that started on the same one-entry index have both returned, one
\* with two survivors and the other with one survivor and one dropped chunk
C23_Witness ==
    /\ Overlapped /\ removed = {}
    /\ adds[1].before = Earlier
    /\ Len(adds[1].newChunksWithIds) = 2
    /\ Len(adds[2].input) = 2 /\ Cardinality(adds[2].failed) = 1
    /\ Len(chunks) = 4


(***************************************************************************)
(* Claims about the lifecycle of a query (SpecChat).                       *)
(***************************************************************************)
Generating == chat.genCalls >= 1

\* C24 as stated: no query reaches Generating (the generation provider is
\* invoked) without the query embedding having been performed first, also when
\* the index is empty.
C24_Original == Generating => srch.invocations >= 1

LifecycleOrder ==
    {<<"searching", "starting">>, <<"searching", "idle">>,
     <<"starting", "streaming">>, <<"starting", "idle">>,
     <<"streaming", "idle">>}

\* C24 as amended: a query sent on a non-empty index goes from Idle to the
\* query embedding and the similarity search, and reaches Generating only once
\* search has returned after at least one embedding call; a query sent on an
\* empty index gets an empty result from search without an embedding call and
\* goes to Generating at once; from Generating on, the states follow in order
\* to Completed or Failed.
C24_Step ==
    LET sent == chat'.sends # chat.sends
    IN  /\ sent =>
              /\ chat.pc = "idle"
              /\ IF Len(chunks) = 0
                 THEN /\ chat'.pc = "starting" /\ chat'.genCalls = 1
                      /\ srch'.pc = "returned" /\ srch'.invocations = 0
                      /\ srch'.result = <<>>
                 ELSE /\ chat'.pc = "searching" /\ chat'.genCalls = 0
                      /\ srch'.pc = "embedding"
        /\ (~sent /\ chat'.pc # chat.pc) => <<chat.pc, chat'.pc>> \in LifecycleOrder
        /\ (~sent /\ chat'.genCalls # chat.genCalls) =>
              /\ chat.pc = "searching" /\ chat'.pc = "starting"
              /\ chat'.genCalls = 1
              /\ srch'.pc = "returned" /\ srch'.invocations >= 1
              /\ srch'.query = chat.query
C24_Lifecycle == [][C24_Step]_vars

\* a query on a non-empty index is streaming its answer after one embedding call
\* and a search that found an entry
C24_Witness ==
    /\ chat.pc = "streaming" /\ chat.items = 1
    /\ srch.pc = "returned" /\ srch.invocations = 1 /\ Len(srch.result) >= 1


\* the query sent last has failed: its embedding, or its generation
QueryFailed == chat.sends >= 1 /\ (chat.genFailed \/ srch.pc = "thrown")
LastUser ==
    CHOOSE m \in DOMAIN chat.messages :
        /\ chat.messages[m].role = "user"
        /\ \A n \in DOMAIN chat.messages : chat.messages[n].role = "user" => n <= m
ErrorsShown ==
    {m \in DOMAIN chat.messages : m > LastUser /\ chat.messages[m].isError}
FailedShown ==
    /\ chat.pc = "idle" /\ ~chat.isTyping
    /\ Cardinality(ErrorsShown) = 1
    /\ chat.messages[Len(chat.messages)].isError

\* C25: Failed is terminal.  A query that has failed (its embedding, or its
\* generation at start or in mid-stream) shows exactly one error message, and
\* until another query is sent no fragment is appended to its answer, no
\* provider call is made for it and it never becomes Completed.
C25_Step ==
    /\ QueryFailed' => FailedShown'
    /\ (QueryFailed /\ chat'.sends = chat.sends) =>
          /\ chat' = chat
          /\ srch' = srch
          /\ QueryFailed'
C25_FailedTerminal == [][C25_Step]_vars

\* the generation failed in mid-stream, after one fragment had been appended
C25_Witness ==
    /\ QueryFailed /\ chat.genFailed /\ Len(chat.aiContent) = 1
    /\ Cardinality(ErrorsShown) = 1 /\ chat.pc = "idle"

\* the other two ways into Failed: the query embedding, and the start of the
\* generation
C25_FromEmbedding == QueryFailed /\ srch.pc = "thrown" /\ chat.genCalls = 0
C25_FromStart == QueryFailed /\ chat.genFailed /\ chat.items = 0 /\ chat.aiContent = <<>>


(***************************************************************************)
(* Claims about diagnostics (SpecEmbed).                                   *)
(***************************************************************************)
\* C26: no error is swallowed silently.  When an attempt of a getEmbedding
\* call has raised an error, the call either throws to its caller or has
\* written at least one log entry, also when a later retry succeeded.
C26_NoSilentError ==
    call.done =>
        LET tr == call.result.trace
            n == CountOp(tr, "embedContent")
        IN  \A k \in 1..n :
                call.responses[k].kind \in {"error", "noEmbeddings"} =>
                    \/ call.result.outcome = "thrown"
                    \/ CountOp(tr, "console.error") >= 1


(***************************************************************************)
(* Claims about search beside the other store operations (SpecSearch).     *)
(***************************************************************************)
\* C27: search is read-only.  A step of search (its call, or its resumption
\* when the query embedding settles) leaves the index as it was, entry by entry
\* and in order, whether the query embedding succeeded or failed; and when the
\* query embedding failed, search raises and returns no result.
C27_Step ==
    /\ srch' # srch => chunks' = chunks /\ adds' = adds /\ nCalls' = nCalls
    /\ (srch.pc = "embedding" /\ srch'.pc # "embedding") =>
          /\ srch'.embedOutcome \in {"returned", "thrown"}
          /\ srch'.embedOutcome = "thrown" =>
                srch'.pc = "thrown" /\ srch'.result = <<>>
C27_ReadOnly == [][C27_Step]_vars

\* a search on a non-empty index has raised because its query embedding failed
C27_Witness ==
    /\ srch.pc = "thrown" /\ srch.embedOutcome = "thrown"
    /\ Len(chunks) >= 1 /\ srch.invocations >= 1


(***************************************************************************)
(* Claims about what a reader sees of a call in flight (SpecObserve).      *)
(***************************************************************************)
OfCall(cs, no) == SelectSeq(cs, LAMBDA e : e.id[1] = no)
Reported(a) == Len(a.progress) >= 1

\* C28: addChunks commits atomically.  While a call is in flight, also after
\* some of its groups have reported progress, it changes nothing in the index
\* and none of its chunks is in it, so getChunkCount() does not count them and
\* a search that settles meanwhile returns none of them; the step that ends
\* the call appends all of its surviving chunks at once; and the result of a
\* search that asks for at least as many results as the index holds has either
\* none of the call's chunks or all of its survivors.
C28_Step ==
    LET a == adds[1]
        b == adds'[1]
        answered == srch.pc = "embedding" /\ srch'.pc = "returned"
    IN  /\ (InFlight(1) /\ b.pc \in {"batch", "pause"}) => chunks' = chunks
        /\ b.pc \in {"batch", "pause"} =>
              /\ OfCall(chunks', b.callNo) = <<>>
              /\ Len(chunks') = Len(b.before)
              /\ answered => OfCall(srch'.result, b.callNo) = <<>>
        /\ (InFlight(1) /\ b.pc = "returned") =>
              /\ chunks' = chunks \o b.newChunksWithIds
              /\ Len(chunks') = Len(chunks) + Len(b.input) - Cardinality(b.failed)
        /\ (InFlight(1) /\ b.pc = "thrown") => chunks' = chunks
        /\ (answered /\ b.pc # "idle" /\ srch'.k >= Len(chunks')) =>
              \/ OfCall(srch'.result, b.callNo) = <<>>
              \/ Len(OfCall(srch'.result, b.callNo))
                    = Len(b.input) - Cardinality(b.failed)
C28_AtomicCommit == [][C28_Step]_vars

\* a search has returned the one earlier entry while a call of two groups, whose
\* first group has reported progress with survivors, is still in flight
C28_Witness ==
    /\ adds[1].pc = "batch" /\ adds[1].i = BATCH_SIZE /\ Reported(adds[1])
    /\ Len(adds[1].newChunksWithIds) >= 1
    /\ srch.pc = "returned" /\ srch.invocations = 1
    /\ srch.result = Earlier /\ getChunkCount = 1


C29_UploadOrphans ==
    (~up.isProcessing /\ deleted = {} /\ \A c \in CallIds : ~InFlight(c)) =>
        \A k \in DOMAIN chunks :
            \E d \in DOMAIN documents : documents[d] = chunks[k].documentId


\* C30: once removeDocument(d) or clear() has returned, the index has no entry
\* of document d (no addChunks call for d is invoked afterwards: each document
\* is ingested by one call, invoked before the removal); a call for d that was
\* in flight at the removal does not bring entries of d back.
C30_RemovedStaysOut == \A d \in removed : OfDocument(chunks, d) = <<>>


(***************************************************************************)
(* Claims about the cost of an addChunks call (SpecBudget).                *)
(***************************************************************************)
Terminated(a) == a.pc \in {"returned", "thrown"}
GroupsOf(n) == (n + BATCH_SIZE - 1) \div BATCH_SIZE

C31_Counts ==
    LET a == adds[1]
        n == Len(a.input)
    IN  /\ invoked.most <= DefaultRetries + 1
        /\ Terminated(a) =>
              /\ Len(a.progress) = GroupsOf(n)
              /\ invoked.total >= n
              /\ invoked.total <= (DefaultRetries + 1) * n
        /\ (a.pc # "idle" /\ n = 0) =>
              /\ a.pc = "returned"
              /\ invoked.total = 0
              /\ a.progress = <<>>
              /\ chunks = a.before

\* C31: when every provider invocation returns, an addChunks call on n chunks
\* terminates (returns or raises) after exactly ceil(n/5) groups, with at least
\* n and at most 3n provider invocations in all and at most 3 for one chunk;
\* with n = 0 it invokes nothing, reports no progress, returns and leaves the
\* index as it was.
C31_Terminates == []C31_Counts /\ (InFlight(1) ~> Terminated(adds[1]))

\* a call on six chunks has ended after two groups, having spent three
\* invocations on one of its chunks and sixteen in all
C31_Witness ==
    /\ Terminated(adds[1]) /\ Len(adds[1].input) = 6
    /\ Len(adds[1].progress) = 2
    /\ invoked.most = DefaultRetries + 1 /\ invoked.total = 16

\* a call on no chunk has returned, on an index that held an entry
C31_EmptyInput ==
    /\ adds[1].pc = "returned" /\ adds[1].input = <<>>
    /\ chunks = Earlier /\ invoked = NoInvocations


(***************************************************************************)
(* Claims about the size of a search result (SpecTopK).                    *)
(***************************************************************************)
\* C32: on a non-empty index of n entries and with a successful query
\* embedding, search(q, k) returns exactly min(k, n) entries, none of them
\* twice; a call without k returns exactly min(3, n) entries; and the search
\* of the chat boundary is always made with k = 5.
C32_ResultSize ==
    /\ (Returned /\ Len(chunks) >= 1 /\ srch.embedOutcome = "returned") =>
          LET r == srch.result
          IN  /\ Len(r) = Min(srch.k, Len(chunks))
              /\ \A i, j \in DOMAIN r : i # j => r[i].id # r[j].id
              /\ ~srch.given => Len(r) = Min(3, Len(chunks))
    /\ chat.sends >= 1 => srch.given /\ srch.k = 5

\* a search without k on an index of six entries has returned three of them
C32_Witness ==
    /\ Returned /\ ~srch.given /\ srch.embedOutcome = "returned"
    /\ Len(chunks) = 6 /\ Len(srch.result) = 3

\* the search of a chat query on an index of six entries has returned five
C32_ChatBoundary ==
    /\ Returned /\ chat.sends = 1 /\ srch.embedOutcome = "returned"
    /\ Len(chunks) = 6 /\ Len(srch.result) = 5


(***************************************************************************)
(* Claims about send requests (SpecSend).                                  *)
(***************************************************************************)
InFlightQuery == chat.isTyping

C33_Step ==
    /\ chat'.ignored # chat.ignored =>
          /\ srch' = srch
          /\ chat' = [chat EXCEPT !.ignored = chat'.ignored]
    /\ chat'.sends # chat.sends =>
          /\ ~chat.isTyping /\ chat.pc = "idle"
          /\ chat'.sends = chat.sends + 1
    /\ chat'.isTyping <=> chat'.pc # "idle"
    /\ (chat.isTyping /\ chat'.sends = chat.sends) =>
          /\ Len(chat'.messages) - Len(chat.messages) \in {0, 1}
          /\ \A m \in DOMAIN chat'.messages : chat'.messages[m].role = "user" =>
                m \in DOMAIN chat.messages /\ chat.messages[m] = chat'.messages[m]

C33_BlankIgnored ==
    /\ chat.ignored >= 1 /\ chat.sends = 0 /\ chat.messages = <<>>
    /\ srch = IdleSearch

============================================================================
